---- MODULE Spec2Model ----
(***************************************************************************)
(* HubSpot OAuth2 authorization-code flow (hubspot_oauth.py) with its      *)
(* local callback listener, the token refresh, the persisted credential    *)
(* file hubspot_tokens.json, and the error policy of the resource client   *)
(* (hubspot_client.py), the script's main() menu, and the embedding        *)
(* endpoints of embedding_server.py.                                       *)
(*                                                                         *)
(* Python values: None is the string "None"; every scalar (token, code,    *)
(* numeral of expires_in) is a string; a dict is a function whose domain   *)
(* is its key set; the text of `scope` is a sequence of one-character      *)
(* strings; a list is a sequence.                                          *)
(***************************************************************************)
EXTENDS Integers, Sequences, FiniteSets, TLC

\* ---------------------------------------------------------------- bounds
\* Requests the callback listener receives during one flow.
MaxRequests == 2
\* Operations called on one HubSpotClient.
MaxCalls == 2
\* Texts in one embedding request.
MaxBatch == 2
\* Characters in one text.
MaxTextLen == 2

\* ---------------------------------------------------------------- values
None == "None"

EmptyDict == [k \in {} |-> None]

\* dict.get(k, default)
Get(d, k, default) == IF k \in DOMAIN d THEN d[k] ELSE default

\* d.update(e): keys of e replace or extend those of d
Update(d, e) ==
  [k \in (DOMAIN d) \cup (DOMAIN e) |-> IF k \in DOMAIN e THEN e[k] ELSE d[k]]

\* str.split(' ') on a text given as a sequence of characters: the pieces
\* between single spaces, [''] for the empty text.
RECURSIVE SplitFrom(_, _, _)
SplitFrom(s, i, cur) ==
  IF i > Len(s) THEN <<cur>>
  ELSE IF s[i] = " " THEN <<cur>> \o SplitFrom(s, i + 1, <<>>)
  ELSE SplitFrom(s, i + 1, Append(cur, s[i]))

Split(s) == SplitFrom(s, 1, <<>>)

\* ------------------------------------------------- the credential file
\* json.dump / json.load.  A JSON text is the sequence of its members
\* <<key, value token>>; a value token carries the JSON type of the value.
ArrayKeys == {"scopes"}
TextKeys == {"scope"}
KeyOrder ==
  <<"access_token", "refresh_token", "expires_in", "token_type", "user",
    "scopes", "scope">>

JsonValue(k, v) ==
  IF k \in ArrayKeys THEN <<"array", v>>
  ELSE IF k \in TextKeys THEN <<"string", v>>
  ELSE IF v = None THEN <<"null">>
  ELSE IF k = "expires_in" THEN <<"number", v>>
  ELSE <<"string", v>>

PyValue(tok) == IF tok[1] = "null" THEN None ELSE tok[2]

RECURSIVE DumpFrom(_, _)
DumpFrom(d, i) ==
  IF i > Len(KeyOrder) THEN <<>>
  ELSE IF KeyOrder[i] \in DOMAIN d
       THEN <<(<<KeyOrder[i], JsonValue(KeyOrder[i], d[KeyOrder[i]])>>)>>
            \o DumpFrom(d, i + 1)
       ELSE DumpFrom(d, i + 1)

\* a variant that leaves the null members out of the text
JsonDumpsSkipNull(d) ==
  DumpFrom([k \in {j \in DOMAIN d : j \in ArrayKeys \cup TextKeys \/ d[j] # None}
              |-> d[k]], 1)

JsonDumps(d) == DumpFrom(d, 1)

\* a text json.load rejects: a member with no value
CorruptText == <<(<<"access_token">>)>>

JsonValid(text) == \A i \in 1..Len(text) : Len(text[i]) = 2

JsonLoads(text) ==
  [k \in {text[i][1] : i \in 1..Len(text)} |->
     LET i == CHOOSE j \in 1..Len(text) : text[j][1] = k
     IN  PyValue(text[i][2])]

NoFile == [exists |-> FALSE, text |-> <<>>]
FileOf(text) == [exists |-> TRUE, text |-> text]

\* load_saved_tokens: the dict of the file, or None when the file is
\* missing or json.load raises.  A loaded value is [some, d].
NoDict == [some |-> FALSE, d |-> EmptyDict]
Some(d) == [some |-> TRUE, d |-> d]

LoadSavedTokens(f) ==
  IF f.exists /\ JsonValid(f.text) THEN Some(JsonLoads(f.text)) ELSE NoDict

\* ------------------------------------------------------- the environment
Codes == {"c1", "c2"}
Errors == {"access_denied"}
\* values of `state`: the one the run generates, and another
Generated == {"s1"}
States == Generated \cup {"s2"}

\* parse_qs of the callback's query string: the first value of `code`,
\* `error` and `state`, None for a parameter that is absent (or blank).
Queries ==
  [code : Codes \cup {None}, error : Errors \cup {None}, state : States \cup {None}]

\* status codes the token endpoint and the user-info endpoint answer with
TokenStatuses == {200, 201, 400, 500}

\* JSON objects of a 200 answer of the token endpoint to the code exchange
\* (RFC 6749 token responses: access_token a string, refresh_token a string
\* or left out, scope a text or left out)
ExchangeResponses ==
  { [access_token |-> "at1", refresh_token |-> "rt1", expires_in |-> "1800"],
    [access_token |-> "at2", expires_in |-> "1800"],
    [access_token |-> "at2", refresh_token |-> "rt2", scope |-> <<"a", " ", "b">>] }

\* JSON objects of a 200 answer of the token endpoint to a refresh
RefreshResponses ==
  { [access_token |-> "at3", refresh_token |-> "rt3", expires_in |-> "900"],
    [access_token |-> "at3", expires_in |-> "900"],
    [access_token |-> "at3", refresh_token |-> None] }

\* JSON objects of a 200 answer of the access-token information endpoint
UserInfos == { [user |-> "u@x"], EmptyDict }

\* credential files found at start
InitialFiles ==
  { NoFile,
    FileOf(CorruptText),
    FileOf(JsonDumps([access_token |-> "at0", refresh_token |-> "rt0",
                      expires_in |-> "1800", user |-> "u@x",
                      scopes |-> <<(<<"a">>)>>])),
    FileOf(JsonDumps([access_token |-> "at0", refresh_token |-> None,
                      expires_in |-> None, user |-> None,
                      scopes |-> <<(<<>>)>>])),
    FileOf(JsonDumps([access_token |-> "at0"])),
    FileOf(JsonDumps(EmptyDict)) }

\* ------------------------------------------------------------------ state
VARIABLES
  creds,            \* HUBSPOT_CLIENT_ID and HUBSPOT_CLIENT_SECRET are both set
  file,             \* hubspot_tokens.json
  op,               \* the operation run: "none", "flow", "refresh", "client",
                    \* "embed", "main"
  pc,               \* its position
  result,           \* its return value, [some, d]
  authState,        \* `state` placed in the authorization URL
  server,           \* server.auth_code, server.state, server.error
  shutdown_request, \* the flag server.shutdown() sets
  lpc,              \* position of the listener thread (serve_forever)
  nreq,             \* requests the listener has accepted in this flow
  req,              \* query of the request being (or last) handled
  handler,          \* self.auth_code, self.state, self.error of its handler
  sent,             \* status of the response sent to it, 0 when none was sent
  waitEnd,          \* which read ended the wait loop: "none", "code", "error"
  first,            \* server attributes when the first request carrying
                    \* code or error had been handled, [some, v]
  fileBefore,       \* the file as it was before the operation
  token_data,       \* answer of the code exchange
  user_info,        \* answer of get_user_info
  api_test,         \* status of test_api_connection: "none", "success", "error"
  ex_status,        \* status code of the code exchange, 0 before it
  ui_status,        \* status code of the user-info request, 0 before it
  exchanges,        \* code-exchange requests sent in this operation
  tokens,           \* refresh_saved_tokens: the loaded dict, [some, d]
  new_tokens,       \* answer of the refresh
  rf_status,        \* status code of the refresh, 0 before it
  refreshes,        \* refresh requests sent in this operation
  exc,              \* the exception the operation raised or caught, <<>> if none
  client_token,     \* resource client: self.access_token
  rq_status,        \* resource client: status code of the response, 0 before it
  outcome,          \* resource client: how _make_request ended
  given,            \* resource client: the access_token argument of __init__
  file_read,        \* resource client: __init__ read the credential file
  headers,          \* resource client: self.headers
  ncalls,           \* resource client: operations called so far
  rq_op,            \* resource client: the operation called
  rq_count,         \* resource client: HTTP requests that call has sent
  rq_auth,          \* resource client: Authorization header of the request
  rq_return,        \* resource client: what the operation returned
  failing,          \* embedding server: texts model.encode raises on
  endpoint,         \* embedding server: path of the request, "none" before it
  emb_input,        \* embedding server: request.input, a str [kind, text]
                    \* or a list [kind, texts]
  response,         \* embedding server: the HTTP response
  in_main,          \* main() is the caller of the operation
  saved_tokens,     \* main: load_saved_tokens() at its start, [some, d]
  main_test,        \* main: "none", "success", "error" (api_test['status'])
  choice,           \* main: the stripped answer to the menu
  main_exc          \* main: the exception its `except Exception` caught

envVars == <<creds, file, op, pc, result, fileBefore, exc>>
listenerVars == <<server, shutdown_request, lpc, nreq, req, handler, sent, first>>
flowVars ==
  <<authState, waitEnd, token_data, user_info, api_test, ex_status, ui_status,
    exchanges>>
refreshVars == <<tokens, new_tokens, rf_status, refreshes>>
clientVars ==
  <<client_token, rq_status, outcome, given, file_read, headers, ncalls, rq_op,
    rq_count, rq_auth, rq_return>>
embedVars == <<failing, endpoint, emb_input, response>>
mainVars == <<in_main, saved_tokens, main_test, choice, main_exc>>
vars ==
  <<envVars, listenerVars, flowVars, refreshVars, clientVars, embedVars,
    mainVars>>

NoAttrs == [auth_code |-> None, state |-> None, error |-> None]
NoQuery == [code |-> None, error |-> None, state |-> None]
NoFirst == [some |-> FALSE, v |-> NoAttrs]
NoExc == <<>>
NoInput == [kind |-> "none"]
NoResponse == [status |-> 0]
NoChoice == <<"unset">>
MissingCredentials == <<"Missing HubSpot credentials in .env file">>

\* every local of the operations as it is before the operation runs
Fresh ==
  /\ result = NoDict
  /\ authState = None
  /\ server = NoAttrs
  /\ shutdown_request = FALSE
  /\ lpc = "off"
  /\ nreq = 0
  /\ req = NoQuery
  /\ handler = NoAttrs
  /\ sent = 0
  /\ waitEnd = "none"
  /\ first = NoFirst
  /\ token_data = EmptyDict
  /\ user_info = EmptyDict
  /\ api_test = "none"
  /\ ex_status = 0
  /\ ui_status = 0
  /\ exchanges = 0
  /\ tokens = NoDict
  /\ new_tokens = EmptyDict
  /\ rf_status = 0
  /\ refreshes = 0
  /\ exc = NoExc
  /\ client_token = None
  /\ rq_status = 0
  /\ outcome = "none"
  /\ given = None
  /\ file_read = FALSE
  /\ headers = EmptyDict
  /\ ncalls = 0
  /\ rq_op = "none"
  /\ rq_count = 0
  /\ rq_auth = <<>>
  /\ rq_return = "none"
  /\ failing = {}
  /\ endpoint = "none"
  /\ emb_input = NoInput
  /\ response = NoResponse
  /\ in_main = FALSE
  /\ saved_tokens = NoDict
  /\ main_test = "none"
  /\ choice = NoChoice
  /\ main_exc = NoExc

Init ==
  /\ creds \in BOOLEAN
  /\ file \in InitialFiles
  /\ op = "none"
  /\ pc = "idle"
  /\ fileBefore = file
  /\ Fresh

\* one operation is run, on the credential file as found
Start(o, p) ==
  /\ pc = "idle"
  /\ op' = o
  /\ pc' = p
  /\ UNCHANGED <<creds, file, result, fileBefore, exc, listenerVars, flowVars,
                 refreshVars, clientVars, embedVars,
                 mainVars>>

\* the operation returns r
Return(r) ==
  /\ result' = r
  /\ pc' = "done"
  /\ UNCHANGED exc

\* the operation's `except Exception` catches e and returns None
Caught(e) ==
  /\ result' = NoDict
  /\ pc' = "done"
  /\ exc' = e

\* the operation goes on at p
Goto(p) ==
  /\ pc' = p
  /\ UNCHANGED <<result, exc>>

\* ------------------------------------------- the callback listener thread
\* serve_forever accepts a request while shutdown was not requested; the
\* handler's __init__ clears self.auth_code, self.state and self.error.
Accept(q) ==
  /\ lpc = "select"
  /\ ~shutdown_request
  /\ nreq < MaxRequests
  /\ nreq' = nreq + 1
  /\ req' = q
  /\ handler' = NoAttrs
  /\ sent' = 0
  /\ lpc' = "do_GET"
  /\ UNCHANGED <<envVars, flowVars, refreshVars, clientVars, embedVars,
                 mainVars, server,
                 shutdown_request, first>>

\* do_GET up to the branch's response: `code` wins over `error`; with
\* neither, nothing is stored and nothing is sent.
DoGetCode(q) == [auth_code |-> q.code, state |-> q.state, error |-> None]
DoGetError(q) == [auth_code |-> None, state |-> None, error |-> q.error]

DoGet ==
  /\ lpc = "do_GET"
  /\ IF req.code # None
       THEN handler' = DoGetCode(req) /\ sent' = 200
     ELSE IF req.error # None
       THEN handler' = DoGetError(req) /\ sent' = 400
     ELSE UNCHANGED <<handler, sent>>
  /\ lpc' = "signal_code"
  /\ UNCHANGED <<envVars, flowVars, refreshVars, clientVars, embedVars,
                 mainVars, server,
                 shutdown_request, nreq, req, first>>

\* self.server.auth_code = self.auth_code
SignalAuthCode ==
  /\ lpc = "signal_code"
  /\ server' = [server EXCEPT !.auth_code = handler.auth_code]
  /\ lpc' = "signal_state"
  /\ UNCHANGED <<envVars, flowVars, refreshVars, clientVars, embedVars,
                 mainVars,
                 shutdown_request, nreq, req, handler, sent, first>>

\* self.server.state = self.state
SignalState ==
  /\ lpc = "signal_state"
  /\ server' = [server EXCEPT !.state = handler.state]
  /\ lpc' = "signal_error"
  /\ UNCHANGED <<envVars, flowVars, refreshVars, clientVars, embedVars,
                 mainVars,
                 shutdown_request, nreq, req, handler, sent, first>>

\* self.server.error = self.error; the request is handled and the thread
\* is back in serve_forever's loop
SignalError ==
  /\ lpc = "signal_error"
  /\ server' = [server EXCEPT !.error = handler.error]
  /\ lpc' = "select"
  /\ first' = IF ~first.some /\ (req.code # None \/ req.error # None)
              THEN [some |-> TRUE, v |-> server']
              ELSE first
  /\ UNCHANGED <<envVars, flowVars, refreshVars, clientVars, embedVars,
                 mainVars,
                 shutdown_request, nreq, req, handler, sent>>

\* serve_forever leaves its loop once shutdown was requested
ServeForeverExit ==
  /\ lpc = "select"
  /\ shutdown_request
  /\ lpc' = "stopped"
  /\ UNCHANGED <<envVars, flowVars, refreshVars, clientVars, embedVars,
                 mainVars, server,
                 shutdown_request, nreq, req, handler, sent, first>>

Listener ==
  \/ DoGet
  \/ SignalAuthCode
  \/ SignalState
  \/ SignalError
  \/ ServeForeverExit

\* ------------------------------------------------ interactive_oauth_flow
StartFlow == Start("flow", "init_client")

\* a step of the flow that touches only pc, result and the flow's locals
FlowFrame ==
  UNCHANGED <<creds, file, op, fileBefore, listenerVars, refreshVars,
              clientVars, embedVars,
                 mainVars>>

\* HubSpotOAuth(): ValueError when a credential is missing
InitClient ==
  /\ op = "flow" /\ pc = "init_client"
  /\ IF creds THEN Goto("get_url") ELSE Caught(MissingCredentials)
  /\ UNCHANGED flowVars
  /\ FlowFrame

\* get_authorization_url(): a fresh random state goes into the URL
GetAuthorizationUrl ==
  /\ op = "flow" /\ pc = "get_url"
  /\ \E s \in Generated : authState' = s
  /\ Goto("start_server")
  /\ UNCHANGED <<waitEnd, token_data, user_info, api_test, ex_status,
                 ui_status, exchanges>>
  /\ FlowFrame

\* start_callback_server(): attributes cleared, serve_forever thread started
StartCallbackServer ==
  /\ op = "flow" /\ pc = "start_server"
  /\ server' = NoAttrs
  /\ lpc' = "select"
  /\ pc' = "wait_code"
  /\ UNCHANGED <<creds, file, op, result, fileBefore, exc,
                 shutdown_request, nreq, req, handler, sent, first, flowVars,
                 refreshVars, clientVars, embedVars,
                 mainVars>>

\* while server.auth_code is None and server.error is None: the first read
WaitReadCode ==
  /\ op = "flow" /\ pc = "wait_code"
  /\ IF server.auth_code = None
       THEN pc' = "wait_error" /\ UNCHANGED waitEnd
       ELSE pc' = "shutdown" /\ waitEnd' = "code"
  /\ UNCHANGED <<result, exc, authState, token_data, user_info, api_test,
                 ex_status, ui_status, exchanges>>
  /\ FlowFrame

\* the second read of the loop condition
WaitReadError ==
  /\ op = "flow" /\ pc = "wait_error"
  /\ IF server.error = None
       THEN pc' = "sleep" /\ UNCHANGED waitEnd
       ELSE pc' = "shutdown" /\ waitEnd' = "error"
  /\ UNCHANGED <<result, exc, authState, token_data, user_info, api_test,
                 ex_status, ui_status, exchanges>>
  /\ FlowFrame

\* time.sleep(1)
Sleep ==
  /\ op = "flow" /\ pc = "sleep"
  /\ Goto("wait_code")
  /\ UNCHANGED flowVars
  /\ FlowFrame

\* server.shutdown() sets the flag ...
ShutdownRequest ==
  /\ op = "flow" /\ pc = "shutdown"
  /\ shutdown_request' = TRUE
  /\ pc' = "shutdown_wait"
  /\ UNCHANGED <<creds, file, op, result, fileBefore, exc, server, lpc,
                 nreq, req, handler, sent, first, flowVars, refreshVars,
                 clientVars, embedVars,
                 mainVars>>

\* a variant in which shutdown() does not wait for the loop to end
ShutdownReturnedAtOnce == TRUE

\* shutdown() blocks until serve_forever has left its loop
ShutdownReturned == lpc = "stopped"

\* ... and returns once serve_forever has left its loop
ShutdownWait ==
  /\ op = "flow" /\ pc = "shutdown_wait"
  /\ ShutdownReturned
  /\ Goto("check_error")
  /\ UNCHANGED flowVars
  /\ FlowFrame

\* if server.error: return None
CheckError ==
  /\ op = "flow" /\ pc = "check_error"
  /\ IF server.error # None THEN Return(NoDict) ELSE Goto("check_code")
  /\ UNCHANGED flowVars
  /\ FlowFrame

\* if server.auth_code: ... else return None
CheckCode ==
  /\ op = "flow" /\ pc = "check_code"
  /\ IF server.auth_code # None THEN Goto("exchange") ELSE Return(NoDict)
  /\ UNCHANGED flowVars
  /\ FlowFrame

\* exchange_code_for_token and refresh_access_token: the JSON body of a 200
\* answer is returned, any other status raises with the status code (and
\* the response text) in the message.
ExchangeRaisesBelow400(status) == status >= 400

ExchangeRaises(status) == status # 200

RefreshRaisesBelow400(status) == status >= 400

RefreshRaises(status) == status # 200

ExchangeFailed(status) == <<"Token exchange failed", status>>
RefreshFailed(status) == <<"Token refresh failed", status>>
UserInfoFailed(status) == <<"Failed to get user info", status>>

\* a variant that sends the exchange again after a failure
ExchangeFailureRetried(status) ==
  /\ pc' = "exchange"
  /\ UNCHANGED <<result, exc>>

\* the flow's `except Exception` after a failed exchange: return None
ExchangeFailure(status) == Caught(ExchangeFailed(status))

\* token_data = oauth_client.exchange_code_for_token(server.auth_code)
ExchangeCode ==
  /\ op = "flow" /\ pc = "exchange"
  /\ \E st \in TokenStatuses, body \in ExchangeResponses :
       /\ ex_status' = st
       /\ IF ExchangeRaises(st)
            THEN ExchangeFailure(st) /\ UNCHANGED token_data
            ELSE Goto("print_tokens") /\ token_data' = body
  /\ exchanges' = exchanges + 1
  /\ UNCHANGED <<authState, waitEnd, user_info, api_test, ui_status>>
  /\ FlowFrame

\* the prints of token_data: token_data.get('refresh_token', 'N/A')[:20]
\* raises TypeError when the answer carries "refresh_token": null
PrintTokenData ==
  /\ op = "flow" /\ pc = "print_tokens"
  /\ IF Get(token_data, "refresh_token", "N/A") = None
       THEN Caught(<<"TypeError">>)
       ELSE Goto("user_info")
  /\ UNCHANGED flowVars
  /\ FlowFrame

\* user_info = oauth_client.get_user_info(token_data['access_token'])
GetUserInfo ==
  /\ op = "flow" /\ pc = "user_info"
  /\ \E st \in TokenStatuses, body \in UserInfos :
       /\ ui_status' = st
       /\ IF st = 200
            THEN Goto("test_api") /\ user_info' = body
            ELSE Caught(UserInfoFailed(st)) /\ UNCHANGED user_info
  /\ UNCHANGED <<authState, waitEnd, token_data, api_test, ex_status, exchanges>>
  /\ FlowFrame

\* api_test = oauth_client.test_api_connection(...): never raises on a status
TestApiConnection ==
  /\ op = "flow" /\ pc = "test_api"
  /\ \E st \in TokenStatuses :
       api_test' = IF st = 200 THEN "success" ELSE "error"
  /\ Goto("save")
  /\ UNCHANGED <<authState, waitEnd, token_data, user_info, ex_status,
                 ui_status, exchanges>>
  /\ FlowFrame

\* the dict json.dump writes to hubspot_tokens.json
SavedRecord(td, ui) ==
  [access_token |-> td["access_token"],
   refresh_token |-> Get(td, "refresh_token", None),
   expires_in |-> Get(td, "expires_in", None),
   user |-> Get(ui, "user", None),
   scopes |-> Split(Get(td, "scope", <<>>))]

\* the dict interactive_oauth_flow returns
FlowResult(td, ui, at) ==
  [access_token |-> td["access_token"],
   refresh_token |-> Get(td, "refresh_token", None),
   expires_in |-> Get(td, "expires_in", None),
   user_info |-> ui,
   api_test |-> at]

\* with open(tokens_file, 'w') as f: json.dump({...}, f); return {...}
SaveTokens ==
  /\ op = "flow" /\ pc = "save"
  /\ file' = FileOf(JsonDumps(SavedRecord(token_data, user_info)))
  /\ Return(Some(FlowResult(token_data, user_info, api_test)))
  /\ UNCHANGED <<creds, op, fileBefore, listenerVars, flowVars,
                 refreshVars, clientVars, embedVars,
                 mainVars>>

Flow ==
  \/ InitClient
  \/ GetAuthorizationUrl
  \/ StartCallbackServer
  \/ WaitReadCode
  \/ WaitReadError
  \/ Sleep
  \/ ShutdownRequest
  \/ ShutdownWait
  \/ CheckError
  \/ CheckCode
  \/ ExchangeCode
  \/ PrintTokenData
  \/ GetUserInfo
  \/ TestApiConnection
  \/ SaveTokens

\* --------------------------------------------------- refresh_saved_tokens
StartRefresh == Start("refresh", "load")

RefreshFrame ==
  UNCHANGED <<creds, op, fileBefore, listenerVars, flowVars, clientVars,
              embedVars, mainVars>>

\* tokens = load_saved_tokens();
\* if not tokens or 'refresh_token' not in tokens: return None
NoRefreshToken(t) ==
  \/ ~t.some
  \/ t.d = EmptyDict
  \/ "refresh_token" \notin DOMAIN t.d

LoadTokens ==
  /\ op = "refresh" /\ pc = "load"
  /\ tokens' = LoadSavedTokens(file)
  /\ IF NoRefreshToken(tokens') THEN Return(NoDict) ELSE Goto("refresh_client")
  /\ UNCHANGED <<file, new_tokens, rf_status, refreshes>>
  /\ RefreshFrame

\* oauth_client = HubSpotOAuth(), inside the try
RefreshInitClient ==
  /\ op = "refresh" /\ pc = "refresh_client"
  /\ IF creds THEN Goto("refresh") ELSE Caught(MissingCredentials)
  /\ UNCHANGED <<file, refreshVars>>
  /\ RefreshFrame

\* new_tokens = oauth_client.refresh_access_token(tokens['refresh_token'])
RefreshAccessToken ==
  /\ op = "refresh" /\ pc = "refresh"
  /\ \E st \in TokenStatuses, body \in RefreshResponses :
       /\ rf_status' = st
       /\ IF RefreshRaises(st)
            THEN Caught(RefreshFailed(st)) /\ UNCHANGED new_tokens
            ELSE Goto("update") /\ new_tokens' = body
  /\ refreshes' = refreshes + 1
  /\ UNCHANGED <<file, tokens>>
  /\ RefreshFrame

\* a variant that replaces the record by the answer
MergedReplaced(old, new) == new

\* tokens.update(new_tokens)
Merged(old, new) == Update(old, new)

\* tokens.update(new_tokens); json.dump(tokens, f); return tokens
UpdateAndSave ==
  /\ op = "refresh" /\ pc = "update"
  /\ tokens' = Some(Merged(tokens.d, new_tokens))
  /\ file' = FileOf(JsonDumps(tokens'.d))
  /\ Return(tokens')
  /\ UNCHANGED <<new_tokens, rf_status, refreshes>>
  /\ RefreshFrame

Refresh ==
  \/ LoadTokens
  \/ RefreshInitClient
  \/ RefreshAccessToken
  \/ UpdateAndSave

\* ------------------------------------------------------------ HubSpotClient
StartClient == Start("client", "construct")

ClientFrame ==
  UNCHANGED <<creds, file, op, fileBefore, listenerVars, flowVars,
              refreshVars, embedVars, mainVars>>

\* status codes the resource API answers with
ClientStatuses == {200, 204, 302, 399, 400, 401, 402, 404, 500}

\* access tokens passed to HubSpotClient(...)
GivenTokens == {None, "", "at9"}

\* a variant that only tests for None
TruthyNotNone(v) == v # None

\* `not x` is false: x is neither None nor the empty string
Truthy(v) == v # None /\ v # ""

\* _load_access_token(): tokens.get('access_token') of the file, else None
LoadAccessToken(f) ==
  IF f.exists /\ JsonValid(f.text)
    THEN Get(JsonLoads(f.text), "access_token", None)
    ELSE None

\* self.headers as __init__ builds them
Bearer(tok) == <<"Bearer", tok>>

BuildHeadersNoScheme(tok) ==
  [Authorization |-> <<tok>>, ContentType |-> "application/json"]

BuildHeaders(tok) ==
  [Authorization |-> Bearer(tok), ContentType |-> "application/json"]

\* the token __init__ keeps: the argument when it is truthy, else the
\* file's access_token
ConstructToken(arg, f) == IF Truthy(arg) THEN arg ELSE LoadAccessToken(f)

NoAccessToken == <<"No access token provided or found">>

\* HubSpotClient.__init__
Construct ==
  /\ op = "client" /\ pc = "construct"
  /\ \E arg \in GivenTokens :
       LET tok == ConstructToken(arg, file)
       IN  /\ given' = arg
           /\ file_read' = ~Truthy(arg)
           /\ IF Truthy(tok)
                THEN /\ client_token' = tok
                     /\ headers' = BuildHeaders(tok)
                     /\ Goto("ready")
                ELSE /\ UNCHANGED <<client_token, headers>>
                     /\ result' = NoDict
                     /\ pc' = "done"
                     /\ exc' = NoAccessToken
  /\ UNCHANGED <<rq_status, outcome, ncalls, rq_op, rq_count, rq_auth,
                 rq_return>>
  /\ ClientFrame

\* credential files another run of the OAuth script leaves behind
RewrittenFiles ==
  { FileOf(JsonDumps([access_token |-> "at1", refresh_token |-> "rt1",
                      expires_in |-> "1800", user |-> "u@x",
                      scopes |-> <<(<<>>)>>])),
    NoFile }

\* hubspot_tokens.json is rewritten (or removed) while the client lives
FileWritten ==
  /\ op = "client" /\ pc = "ready"
  /\ file = fileBefore
  /\ \E f \in RewrittenFiles : f # file /\ file' = f
  /\ UNCHANGED <<creds, op, pc, result, fileBefore, exc, listenerVars,
                 flowVars, refreshVars, clientVars, embedVars,
                 mainVars>>

\* the public operations of HubSpotClient
ClientOps ==
  { "get_contacts", "search_contacts", "get_contact_by_id", "create_contact",
    "update_contact", "delete_contact", "get_contact_notes", "create_note",
    "get_deals", "create_deal", "get_companies", "create_company",
    "get_user_info", "test_connection" }

\* an operation is called on the client
Call ==
  /\ op = "client" /\ pc = "ready"
  /\ ncalls < MaxCalls
  /\ ncalls' = ncalls + 1
  /\ \E o \in ClientOps : rq_op' = o
  /\ rq_count' = 0
  /\ rq_status' = 0
  /\ outcome' = "none"
  /\ rq_auth' = <<>>
  /\ rq_return' = "none"
  /\ exc' = NoExc
  /\ pc' = "in_call"
  /\ UNCHANGED <<result, client_token, given, file_read, headers>>
  /\ ClientFrame

\* a variant that tests `>= 400` before `== 401`
MakeRequestOutcomeSwapped(status, jsonBody) ==
  IF status >= 400 THEN "RequestFailed"
  ELSE IF status = 401 THEN "Unauthorized"
  ELSE IF jsonBody THEN "json"
  ELSE "JSONDecodeError"

\* _make_request: the status decides how the call ends; a status below 400
\* returns response.json(), which raises when the body is not JSON
MakeRequestOutcome(status, jsonBody) ==
  IF status = 401 THEN "Unauthorized"
  ELSE IF status >= 400 THEN "RequestFailed"
  ELSE IF jsonBody THEN "json"
  ELSE "JSONDecodeError"

Unauthorized ==
  <<"Access token expired or invalid. Please refresh your tokens.">>
RequestFailed(status) == <<"API request failed", status>>

MakeRequestException(status, jsonBody) ==
  LET o == MakeRequestOutcome(status, jsonBody)
  IN  IF o = "Unauthorized"
        THEN Unauthorized
      ELSE IF o = "RequestFailed" THEN RequestFailed(status)
      ELSE IF o = "JSONDecodeError" THEN <<"JSONDecodeError">>
      ELSE NoExc

\* what the operation makes of _make_request's end: delete_contact and
\* test_connection catch every exception, the others let it through
OpReturn(o, out) ==
  IF o = "delete_contact" THEN (IF out = "json" THEN "True" ELSE "False")
  ELSE IF o = "test_connection"
    THEN (IF out = "json" THEN "success" ELSE "error")
  ELSE IF out = "json" THEN "json"
  ELSE "raised"

\* the operation's single _make_request: kwargs['headers'] = self.headers,
\* requests.request, then the status decides
MakeRequest ==
  /\ op = "client" /\ pc = "in_call"
  /\ \E st \in ClientStatuses, jsonBody \in BOOLEAN :
       /\ rq_status' = st
       /\ outcome' = MakeRequestOutcome(st, jsonBody)
       /\ exc' = MakeRequestException(st, jsonBody)
       /\ rq_return' = OpReturn(rq_op, MakeRequestOutcome(st, jsonBody))
  /\ rq_count' = rq_count + 1
  /\ rq_auth' = headers["Authorization"]
  /\ pc' = IF ncalls = MaxCalls THEN "done" ELSE "ready"
  /\ UNCHANGED <<result, client_token, given, file_read, headers, ncalls,
                 rq_op>>
  /\ ClientFrame

Client ==
  \/ Construct
  \/ Call
  \/ MakeRequest

\* --------------------------------------------------------- embedding_server
MODEL_NAME == "sentence-transformers/all-MiniLM-L6-v2"

\* texts are sequences of characters, a batch is a list of texts
Chars == {"a", " "}
Texts == UNION { [1..n -> Chars] : n \in 0..MaxTextLen }
Batches == UNION { [1..n -> Texts] : n \in 0..MaxBatch }

\* request.input: Union[str, List[str]]
EmbeddingInputs ==
  { [kind |-> "str", text |-> t] : t \in Texts }
    \cup { [kind |-> "list", texts |-> b] : b \in Batches }

EmbeddingPaths == {"/v1/embeddings", "/embeddings"}

\* the embedding capability: texts on which model.encode raises (none, the
\* longest ones, all of them), and the vector it gives for a text
FailingSets == { {}, {t \in Texts : Len(t) = MaxTextLen}, Texts }
EncodeError == "encode failed"
Vec(t) == <<"vec", t>>

\* a variant that takes a str for the list of its characters
NormalizeChars(input) ==
  IF input.kind = "str"
    THEN [i \in 1..Len(input.text) |-> <<input.text[i]>>]
    ELSE input.texts

\* texts = [request.input] if isinstance(request.input, str) else request.input
Normalize(input) ==
  IF input.kind = "str" THEN <<input.text>> ELSE input.texts

\* model.encode(texts): one vector per text, in order; raises as a whole
EncodeRaises(texts, bad) == \E i \in 1..Len(texts) : texts[i] \in bad
Encode(texts) == [i \in 1..Len(texts) |-> Vec(texts[i])]

\* a variant that numbers the entries from 1
EntryIndexOneBased(i) == i

\* enumerate(embedding_list): the i-th element is numbered i - 1
EntryIndex(i) == i - 1

Data(embedding_list) ==
  [i \in 1..Len(embedding_list) |->
     [object |-> "embedding", embedding |-> embedding_list[i],
      index |-> EntryIndex(i)]]

\* len(text.split()): the maximal runs of non-blank characters
WordCount(t) ==
  Cardinality({ i \in 1..Len(t) : t[i] # " " /\ (i = 1 \/ t[i - 1] = " ") })

\* sum(len(text.split()) for text in texts)
RECURSIVE TotalTokens(_)
TotalTokens(texts) ==
  IF texts = <<>> THEN 0
  ELSE WordCount(Head(texts)) + TotalTokens(Tail(texts))

EmbeddingResponse(data, n) ==
  [status |-> 200, data |-> data, model |-> MODEL_NAME,
   usage |-> [prompt_tokens |-> n, total_tokens |-> n]]

\* a variant that answers with the vectors encoded before the failure
FailureResponsePartial(texts, bad, msg) ==
  LET k == CHOOSE i \in 1..Len(texts) :
             texts[i] \in bad /\ \A j \in 1..(i - 1) : texts[j] \notin bad
      done == SubSeq(texts, 1, k - 1)
  IN  EmbeddingResponse(Data(Encode(done)), TotalTokens(done))

\* except Exception as e: raise HTTPException(status_code=500, detail=...)
FailureResponse(texts, bad, msg) ==
  [status |-> 500, detail |-> <<"Embedding generation failed", msg>>]

\* POST /v1/embeddings
CreateEmbeddings(input, bad) ==
  LET texts == Normalize(input)
  IN  IF EncodeRaises(texts, bad)
        THEN FailureResponse(texts, bad, EncodeError)
        ELSE EmbeddingResponse(Data(Encode(texts)), TotalTokens(texts))

\* POST /embeddings: return await create_embeddings(request)
CreateEmbeddingsLegacy(input, bad) == CreateEmbeddings(input, bad)

\* the server is up with its model loaded
StartEmbed ==
  /\ pc = "idle"
  /\ op' = "embed"
  /\ pc' = "request"
  /\ \E bad \in FailingSets : failing' = bad
  /\ UNCHANGED <<creds, file, result, fileBefore, exc, listenerVars, flowVars,
                 refreshVars, clientVars, endpoint, emb_input, response,
                 mainVars>>

\* a request to one of the two endpoints is answered
PostEmbeddings ==
  /\ op = "embed" /\ pc = "request"
  /\ \E path \in EmbeddingPaths, input \in EmbeddingInputs :
       /\ endpoint' = path
       /\ emb_input' = input
       /\ response' = IF path = "/embeddings"
                        THEN CreateEmbeddingsLegacy(input, failing)
                        ELSE CreateEmbeddings(input, failing)
  /\ pc' = "done"
  /\ UNCHANGED <<creds, file, op, result, fileBefore, exc, listenerVars,
                 flowVars, refreshVars, clientVars, failing, mainVars>>

\* --------------------------------------------------------------------- main
\* what input() gives: a line, or EOFError when standard input is closed
RawChoices ==
  { <<"1">>, <<"2">>, <<"3">>, <<" ", "3">>, <<"2", " ">>, <<"4">>, <<>>,
    <<"1", "3">> }
EOFError == <<"EOFError">>
KeyErrorAccessToken == <<"KeyError", "access_token">>

\* str.strip(): blanks removed at both ends
RECURSIVE LStrip(_)
LStrip(s) == IF s # <<>> /\ Head(s) = " " THEN LStrip(Tail(s)) ELSE s
RECURSIVE RStrip(_)
RStrip(s) ==
  IF s # <<>> /\ s[Len(s)] = " " THEN RStrip(SubSeq(s, 1, Len(s) - 1)) ELSE s
Strip(s) == RStrip(LStrip(s))

StartMain ==
  /\ pc = "idle"
  /\ op' = "main"
  /\ pc' = "main_load"
  /\ in_main' = TRUE
  /\ UNCHANGED <<creds, file, result, fileBefore, exc, listenerVars, flowVars,
                 refreshVars, clientVars, embedVars, saved_tokens, main_test,
                 choice, main_exc>>

MainFrame ==
  UNCHANGED <<creds, file, fileBefore, exc, listenerVars, flowVars,
              refreshVars, clientVars, embedVars, in_main>>

\* return interactive_oauth_flow()
CallFlow == op' = "flow" /\ pc' = "init_client" /\ UNCHANGED result

\* return refresh_saved_tokens()
CallRefresh == op' = "refresh" /\ pc' = "load" /\ UNCHANGED result

\* return v
MainReturn(v) == op' = op /\ pc' = "done" /\ result' = v

\* saved_tokens = load_saved_tokens(); if saved_tokens: ...
MainLoad ==
  /\ op = "main" /\ pc = "main_load"
  /\ saved_tokens' = LoadSavedTokens(file)
  /\ IF saved_tokens'.some /\ saved_tokens'.d # EmptyDict
       THEN op' = op /\ pc' = "main_test" /\ UNCHANGED result
       ELSE CallFlow
  /\ UNCHANGED <<main_test, choice, main_exc>>
  /\ MainFrame

\* oauth_client = HubSpotOAuth();
\* api_test = oauth_client.test_api_connection(saved_tokens['access_token'])
MainTest ==
  /\ op = "main" /\ pc = "main_test"
  /\ IF ~creds
       THEN main_exc' = MissingCredentials /\ CallFlow /\ UNCHANGED main_test
     ELSE IF "access_token" \notin DOMAIN saved_tokens.d
       THEN main_exc' = KeyErrorAccessToken /\ CallFlow /\ UNCHANGED main_test
     ELSE \E st \in TokenStatuses :
            /\ main_test' = IF st = 200 THEN "success" ELSE "error"
            /\ IF st = 200
                 THEN op' = op /\ pc' = "main_choice" /\ UNCHANGED result
                 ELSE CallFlow
            /\ UNCHANGED main_exc
  /\ UNCHANGED <<saved_tokens, choice>>
  /\ MainFrame

\* choice = input(...).strip() and the menu; an exception of input() is
\* caught by the `except Exception` of the test and a new flow is started
MainChoice ==
  /\ op = "main" /\ pc = "main_choice"
  /\ \/ /\ main_exc' = EOFError
        /\ CallFlow
        /\ UNCHANGED choice
     \/ \E raw \in RawChoices :
          /\ choice' = Strip(raw)
          /\ IF choice' = <<"1">> THEN MainReturn(saved_tokens)
             ELSE IF choice' = <<"2">> THEN CallRefresh
             ELSE IF choice' = <<"3">> THEN CallFlow
             ELSE MainReturn(NoDict)
          /\ UNCHANGED main_exc
  /\ UNCHANGED <<saved_tokens, main_test>>
  /\ MainFrame

Main ==
  \/ MainLoad
  \/ MainTest
  \/ MainChoice

\* ------------------------------------------------------------ specification
Next ==
  \/ StartFlow
  \/ StartRefresh
  \/ StartClient
  \/ StartEmbed
  \/ StartMain
  \/ FileWritten
  \/ \E q \in Queries : Accept(q)
  \/ Listener
  \/ Flow
  \/ Refresh
  \/ Client
  \/ PostEmbeddings
  \/ Main

Spec == Init /\ [][Next]_vars

\* The orchestrator and the listener are threads the interpreter keeps
\* scheduling; whether a request arrives is up to the user's browser.
FairSpec ==
  /\ Spec
  /\ WF_vars(Flow)
  /\ WF_vars(Listener)
  /\ WF_vars(Refresh)
  /\ WF_vars(Client)
  /\ WF_vars(PostEmbeddings)
  /\ WF_vars(Main)

\* ------------------------------------------------------------------ claims
InWait == op = "flow" /\ pc \in {"wait_code", "wait_error", "sleep"}
Persisted == LoadSavedTokens(file)

\* C1: when the read that ends the wait loop is the one that finds
\* server.error set, the run sends no code exchange to the token endpoint.
C1_ErrorCallbackNoExchange ==
  (op = "flow" /\ waitEnd = "error") => exchanges = 0

\* C2: once a first request carrying code or error has been handled, the
\* server's auth_code, state and error keep the values that request left.
C2_OutcomeSetOnce == first.some => server = first.v

\* C3: a handled request with neither code nor error was answered with a
\* status line and left the outcome Error("missing_code_or_error").
C3_NeitherResponds ==
  (lpc = "select" /\ nreq > 0 /\ req.code = None /\ req.error = None)
    => (sent # 0 /\ server.error = "missing_code_or_error")

\* C4: the orchestrator's wait always ends with the listener shut down,
\* whether or not a request carrying code or error arrives.
C4_WaitEnds == InWait ~> (lpc = "stopped")

\* C5: the token endpoint is called only with a code whose callback state
\* equals the state placed in the authorization URL.
C5_StateValidated ==
  (op = "flow" /\ exchanges > 0) => server.state = authState

\* C6: a non-200 answer to the code exchange ends the flow with the
\* exchange's failure (status code in the message), None returned and the
\* credential file exactly as it was before the flow.
C6_FailedExchangeKeepsFile ==
  (op = "flow" /\ ex_status \notin {0, 200})
    => /\ pc = "done"
       /\ exc = ExchangeFailed(ex_status)
       /\ result = NoDict
       /\ file = fileBefore

C6_Witness ==
  /\ op = "flow" /\ pc = "done"
  /\ ex_status = 201
  /\ fileBefore.exists /\ JsonValid(fileBefore.text)

\* C7: a non-200 answer to the refresh makes refresh_saved_tokens return
\* None with the credential file exactly as it was before the call.
C7_FailedRefreshKeepsFile ==
  (op = "refresh" /\ rf_status \notin {0, 200})
    => /\ pc = "done"
       /\ exc = RefreshFailed(rf_status)
       /\ result = NoDict
       /\ file = fileBefore

C7_Witness ==
  /\ op = "refresh" /\ pc = "done"
  /\ rf_status = 400
  /\ Get(LoadSavedTokens(fileBefore).d, "refresh_token", None) = "rt0"

\* C8: after a refresh answered with 200 the persisted record is the prior
\* record with the answer's fields merged in: every field of the answer has
\* the answer's value (access_token always, refresh_token when the answer
\* has one), every other field keeps its prior value (refresh_token
\* included), and the value returned is the record written.
C8_RefreshMerges ==
  (op = "refresh" /\ pc = "done" /\ rf_status = 200)
    => LET prior == LoadSavedTokens(fileBefore).d
           now == Persisted.d
       IN  /\ Persisted.some
           /\ DOMAIN now = (DOMAIN prior) \cup (DOMAIN new_tokens)
           /\ now["access_token"] = new_tokens["access_token"]
           /\ now["refresh_token"] =
                IF "refresh_token" \in DOMAIN new_tokens
                  THEN new_tokens["refresh_token"]
                  ELSE prior["refresh_token"]
           /\ \A k \in DOMAIN new_tokens : now[k] = new_tokens[k]
           /\ \A k \in (DOMAIN prior) \ (DOMAIN new_tokens) : now[k] = prior[k]
           /\ result = Persisted

C8_Witness ==
  /\ op = "refresh" /\ pc = "done" /\ rf_status = 200
  /\ "refresh_token" \notin DOMAIN new_tokens
  /\ Persisted.d["refresh_token"] = "rt0"
  /\ Persisted.d["access_token"] = "at3"
  /\ Persisted.d["user"] = "u@x"

C10_UnauthorizedOn401 ==
  (op = "client" /\ rq_status # 0)
    => /\ (rq_status = 401) <=> (outcome = "Unauthorized")
       /\ (rq_status >= 400 /\ rq_status # 401) <=> (outcome = "RequestFailed")
       /\ outcome = "Unauthorized" => exc = Unauthorized
       /\ outcome = "RequestFailed" => exc = RequestFailed(rq_status)

C10_Witness ==
  /\ op = "client" /\ pc = "done"
  /\ rq_status = 401
  /\ outcome = "Unauthorized"

\* C11: every HTTP request of the resource client carries
\* Authorization: Bearer <token> with the token the client obtained at
\* construction, also after the credential file was rewritten.
C11_BearerTokenFixed ==
  (op = "client" /\ client_token # None)
    => /\ client_token = ConstructToken(given, fileBefore)
       /\ rq_count > 0 => rq_auth = Bearer(client_token)

C11_Witness ==
  /\ op = "client" /\ rq_count > 0
  /\ file # fileBefore
  /\ LoadAccessToken(file) = "at1"
  /\ client_token = "at0"
  /\ rq_auth = Bearer("at0")

\* C12: one flow sends at most one code exchange, one refresh_saved_tokens
\* at most one refresh, and a finished client operation has sent exactly
\* one HTTP request, whatever the status of the answer.
C12_NoRetries ==
  /\ exchanges <= 1
  /\ refreshes <= 1
  /\ (op = "client" /\ pc = "in_call") => rq_count = 0
  /\ (op = "client" /\ rq_return # "none") => rq_count = 1

C12_Witness ==
  /\ op = "flow" /\ pc = "done"
  /\ ex_status = 500
  /\ exchanges = 1

\* C16: delete_contact returns True exactly when the DELETE request is
\* answered with a 2xx status, whatever the body (a 204 No Content with an
\* empty body included), and False exactly when the request fails.
C16_DeleteTrueOn2xx ==
  (op = "client" /\ rq_op = "delete_contact" /\ rq_return # "none")
    => /\ (rq_return = "True") <=> (rq_status \in 200..299)
       /\ (rq_return = "False") <=> (rq_status >= 400)

\* the flow is past server.shutdown()
PastShutdown ==
  /\ op = "flow"
  /\ \/ pc \in {"check_error", "check_code", "exchange", "print_tokens",
               "user_info", "test_api", "save"}
     \/ exchanges > 0
     \/ pc = "done" /\ lpc # "off"

\* C17: the flow goes on past server.shutdown() only when the listener
\* thread has left its serving loop, so the token endpoint is called with
\* the listener stopped; a stopped listener handles no further request; and
\* every flow that started the listener and ended has stopped it, the one
\* ended by an error callback included.
C17_ListenerStoppedBeforeProceeding ==
  [][ /\ PastShutdown' => lpc' = "stopped"
      /\ lpc = "stopped" => UNCHANGED listenerVars ]_vars

C17_Witness ==
  /\ op = "flow" /\ pc = "done"
  /\ waitEnd = "error"
  /\ lpc = "stopped"
  /\ nreq > 0
  /\ exchanges = 0

\* the loaded record holds a refresh token that is not null
HoldsRefreshToken(t) ==
  /\ t.some
  /\ "refresh_token" \in DOMAIN t.d
  /\ t.d["refresh_token"] # None

\* C18: refresh_saved_tokens sends a refresh request only when the stored
\* record holds a refresh token that is not null; otherwise it returns None
\* with no request sent and the file as it was.
C18_RefreshOnlyWithToken ==
  /\ (op = "refresh" /\ refreshes > 0)
       => HoldsRefreshToken(LoadSavedTokens(fileBefore))
  /\ (op = "refresh" /\ pc = "done"
        /\ ~HoldsRefreshToken(LoadSavedTokens(fileBefore)))
       => (result = NoDict /\ refreshes = 0 /\ file = fileBefore)

\* HubSpotClient.__init__ has returned a client
Constructed == op = "client" /\ pc \in {"ready", "in_call"} \cup
                                        (IF ncalls > 0 THEN {"done"} ELSE {})

\* C20: a constructed HubSpotClient holds a non-empty access token: the
\* argument as passed when it is non-empty, with the credential file left
\* unread; else the access_token of the credential file; and when neither
\* gives a non-empty token, construction raises ValueError and there is no
\* client (no token kept, no headers, no operation called).
C20_ConstructedHoldsToken ==
  /\ Constructed
       => /\ client_token \notin {None, ""}
          /\ given \notin {None, ""}
               => (client_token = given /\ ~file_read)
          /\ given \in {None, ""}
               => /\ file_read
                  /\ LoadSavedTokens(fileBefore).some
                  /\ "access_token" \in DOMAIN LoadSavedTokens(fileBefore).d
                  /\ client_token = LoadSavedTokens(fileBefore).d["access_token"]
  /\ (op = "client" /\ pc = "done" /\ ncalls = 0)
       => /\ exc = NoAccessToken
          /\ given \in {None, ""}
          /\ LoadAccessToken(fileBefore) \in {None, ""}
          /\ client_token = None /\ headers = EmptyDict /\ rq_count = 0
  /\ (op = "client" /\ pc # "construct") => (Constructed \/ pc = "done")

C20_Witness ==
  /\ op = "client" /\ pc = "ready"
  /\ given = ""
  /\ file_read
  /\ client_token = "at0"

Answered == op = "embed" /\ pc = "done"

\* C13: for a batch of N texts that the capability encodes (one vector per
\* text), create_embeddings answers with exactly N data entries, the i-th
\* (counting from 0) carrying index i and the vector of the i-th text.
C13_OneEntryPerInputInOrder ==
  (Answered /\ emb_input.kind = "list"
     /\ \A i \in 1..Len(emb_input.texts) : emb_input.texts[i] \notin failing)
    => /\ response.status = 200
       /\ Len(response.data) = Len(emb_input.texts)
       /\ \A i \in 1..Len(emb_input.texts) :
            /\ response.data[i].index = i - 1
            /\ response.data[i].embedding = Vec(emb_input.texts[i])

C13_Witness ==
  /\ Answered /\ emb_input.kind = "list"
  /\ Len(emb_input.texts) = MaxBatch
  /\ emb_input.texts[1] # emb_input.texts[MaxBatch]
  /\ response.status = 200
  /\ response.data[MaxBatch].index = MaxBatch - 1

\* C14: the answer to a single text x is the answer to the one-element
\* batch [x]: the same single entry with index 0, the same model, the same
\* usage counts (and the same error when the capability fails on x).
C14_StrIsOneElementBatch ==
  (Answered /\ emb_input.kind = "str")
    => /\ response =
            CreateEmbeddings([kind |-> "list", texts |-> <<emb_input.text>>],
                             failing)
       /\ response.status = 200
            => /\ Len(response.data) = 1
               /\ response.data[1].index = 0
               /\ response.data[1].embedding = Vec(emb_input.text)
               /\ response.usage.total_tokens = WordCount(emb_input.text)

C14_Witness ==
  /\ Answered /\ emb_input.kind = "str"
  /\ Len(emb_input.text) = MaxTextLen
  /\ response.status = 200
  /\ response.usage.total_tokens = 1

\* C15: when the capability fails on a batch, both endpoints answer with
\* one 500 response that carries the message of the failure and no data
\* entries; a response with data has an entry for every text of the batch.
C15_FailureFailsWholeBatch ==
  Answered
    => LET texts == IF emb_input.kind = "str" THEN <<emb_input.text>>
                    ELSE emb_input.texts
       IN  /\ (\E i \in 1..Len(texts) : texts[i] \in failing)
                => /\ response.status = 500
                   /\ response.detail =
                        <<"Embedding generation failed", EncodeError>>
                   /\ DOMAIN response = {"status", "detail"}
           /\ "data" \in DOMAIN response
                => Len(response.data) = Len(texts)

C15_Witness ==
  /\ Answered /\ endpoint = "/embeddings"
  /\ emb_input.kind = "list"
  /\ Len(emb_input.texts) = MaxBatch
  /\ emb_input.texts[1] \notin failing
  /\ emb_input.texts[MaxBatch] \in failing
  /\ response.status = 500

\* `if saved_tokens`, and the exceptions of the API test
HasSavedTokens == saved_tokens.some /\ saved_tokens.d # EmptyDict
TestRaised == main_exc \in {MissingCredentials, KeyErrorAccessToken}

\* C19: main() starts a new flow only when there are no saved tokens, the
\* API test of the saved tokens fails or raises, or the answer to the menu
\* is 3; with valid saved tokens, answer 1 returns them with no request to
\* the token endpoint and no write, answer 2 runs a refresh and nothing
\* else, and any other answer returns None with no flow and no refresh.
C19_MainStartsOnlyWhatIsAsked ==
  in_main
    => /\ op = "flow"
            => \/ ~HasSavedTokens
               \/ main_test = "error"
               \/ TestRaised
               \/ choice = <<"3">>
       /\ op = "refresh"
            => (main_test = "success" /\ choice = <<"2">> /\ exchanges = 0)
       /\ (op = "main" /\ pc = "done")
            => /\ main_test = "success"
               /\ exchanges = 0 /\ refreshes = 0 /\ lpc = "off"
               /\ file = fileBefore
               /\ result = IF choice = <<"1">> THEN saved_tokens ELSE NoDict
       /\ (main_test = "success" /\ choice \notin {NoChoice, <<"2">>, <<"3">>})
            => (op = "main" /\ pc = "done")

====
